---- MODULE Spec2Model ----
(***************************************************************************)
(* gooseberry: the sled-backed annotation index (src/gooseberry/database.rs)*)
(* and the sync run that feeds it (src/gooseberry/mod.rs).                  *)
(*                                                                          *)
(* Strings and byte arrays are sequences of one-character strings, so that  *)
(* utils::join_ids / utils::split_ids and merge_index are modelled by what  *)
(* they do to the bytes.  A sled tree is a function from its present keys   *)
(* to byte arrays.  Option<T> is a sequence of length at most one.          *)
(***************************************************************************)
EXTENDS Integers, Sequences, FiniteSets, TLC

VARIABLES
    db,             \* the three sled trees
    last_sync_time, \* the "last_sync_time" key of the database: None or Some(time)
    last,           \* the last database call and how it ended
    nops,           \* number of database calls made so far
    remote,         \* the annotations held by Hypothesis, by id
    clock,          \* the wall clock, which stamps remote edits and Utc::now()
    pc,             \* where the running Gooseberry::sync stands
    sync_time,      \* sync's local `sync_time`
    user_ix,        \* index of the user whose query runs next
    fetched,        \* sync's local `annotations`
    counts,         \* sync's local `(added, updated)`
    quiet,          \* no remote edit since the running (or last) sync began
    observed,       \* the tags add_annotation has been handed so far
    shown           \* what the last query returned to its caller

vars == <<db, last_sync_time, last, nops, remote, clock, pc, sync_time, user_ix,
          fetched, counts, quiet, observed, shown>>

\* ------------------------------------------------------------------ bounds
\* number of database calls explored from the empty database
MaxOps == 2
\* longest id list kept under one tag key (merge_index appends without bound)
MaxEntryLen == 2
\* last tick of the wall clock
MaxClock == 4

\* ------------------------------------------------------------- constants
SEMICOLON == ";"
EMPTY_TAG == <<"U", "n", "t", "a", "g", "g", "e", "d">>
IGNORE_TAG == <<"g", "o", "o", "s", "e", "b", "e", "r", "r", "y", "_",
               "i", "g", "n", "o", "r", "e">>
\* MIN_DATE, "1900-01-01T00:00:00.000Z": earlier than every timestamp
MIN_DATE == 0

None == <<>>
Some(v) == <<v>>

\* ------------------------------------------------------------ utils.rs
RECURSIVE join_ids(_)
join_ids(index_list) ==
    IF index_list = <<>> THEN <<>>
    ELSE IF Len(index_list) = 1 THEN index_list[1]
    ELSE index_list[1] \o <<SEMICOLON>> \o join_ids(Tail(index_list))

RECURSIVE split_ids(_)
split_ids(index_list) ==
    IF \A i \in 1..Len(index_list) : index_list[i] # SEMICOLON
    THEN <<index_list>>
    ELSE LET i == CHOOSE j \in 1..Len(index_list) :
                     /\ index_list[j] = SEMICOLON
                     /\ \A k \in 1..(j - 1) : index_list[k] # SEMICOLON
         IN <<SubSeq(index_list, 1, i - 1)>>
              \o split_ids(SubSeq(index_list, i + 1, Len(index_list)))

\* str::is_empty and str::trim().is_empty()
is_empty(s) == s = <<>>
trim_is_empty(s) == \A i \in 1..Len(s) : s[i] = " "

\* ------------------------------------------------------------ sled trees
EmptyTree == <<>>
TreeGet(tree, key) == IF key \in DOMAIN tree THEN Some(tree[key]) ELSE None
TreeInsert(tree, key, value) ==
    [k \in (DOMAIN tree) \cup {key} |-> IF k = key THEN value ELSE tree[k]]
TreeRemove(tree, key) == [k \in (DOMAIN tree) \ {key} |-> tree[k]]

\* the merge operator of tag_to_annotations: append, joined by a semicolon
merge_index(key, old_indices, new_index) ==
    LET ret == IF old_indices = None THEN <<>> ELSE old_indices[1]
    IN Some((IF ret # <<>> THEN ret \o <<SEMICOLON>> ELSE ret) \o new_index)

TreeMerge(tree, key, value) ==
    TreeInsert(tree, key, merge_index(key, TreeGet(tree, key), value)[1])

\* a sled::Batch is the list of its operations, applied in order
BatchInsert(batch, key, value) == Append(batch, [op |-> "insert", key |-> key, value |-> value])
BatchRemove(batch, key) == Append(batch, [op |-> "remove", key |-> key, value |-> <<>>])
RECURSIVE apply_batch(_, _)
apply_batch(tree, batch) ==
    IF batch = <<>> THEN tree
    ELSE apply_batch(IF batch[1].op = "insert"
                        THEN TreeInsert(tree, batch[1].key, batch[1].value)
                        ELSE TreeRemove(tree, batch[1].key),
                     Tail(batch))

\* ------------------------------------------------------------ results
Ok(d, v) == [ok |-> TRUE, db |-> d, val |-> v, err |-> "", at |-> <<>>]
Err(d, e, k) == [ok |-> FALSE, db |-> d, val |-> <<>>, err |-> e, at |-> k]

\* ------------------------------------------------------------ database.rs
EmptyDb == [annotation_to_tags |-> EmptyTree, tag_to_annotations |-> EmptyTree,
            annotations |-> EmptyTree]

\* Delete an annotation index from the tag tree
delete_from_tag_to_annotations_tree(d, tag_key, annotation_id) ==
    LET got == TreeGet(d.tag_to_annotations, tag_key) IN
    IF got = None THEN Err(d, "TagNotFound", tag_key)
    ELSE LET Keep(index_i) == index_i # annotation_id
             new_indices == SelectSeq(split_ids(got[1]), Keep)
         IN Ok([d EXCEPT !.tag_to_annotations =
                    IF new_indices = <<>>
                    THEN TreeRemove(d.tag_to_annotations, tag_key)
                    ELSE TreeInsert(d.tag_to_annotations, tag_key, join_ids(new_indices))],
               <<>>)

\* delete_from_annotation_to_tags_tree that takes an absent id for an
\* annotation without tags
delete_from_annotation_to_tags_tree_lenient(d, id) ==
    LET got == TreeGet(d.annotation_to_tags, id) IN
    IF got = None THEN Ok(d, <<>>)
    ELSE Ok([d EXCEPT !.annotation_to_tags = TreeRemove(d.annotation_to_tags, id)],
            split_ids(got[1]))

\* Delete an annotation ID from the annotation to tags tree
delete_from_annotation_to_tags_tree(d, id) ==
    LET got == TreeGet(d.annotation_to_tags, id) IN
    IF got = None THEN Err(d, "AnnotationNotFound", id)
    ELSE Ok([d EXCEPT !.annotation_to_tags = TreeRemove(d.annotation_to_tags, id)],
            split_ids(got[1]))

\* Delete an annotation ID from the annotations tree
delete_from_annotations_tree(d, id) ==
    [d EXCEPT !.annotations = TreeRemove(d.annotations, id)]

\* the `for tag in &tags` loop of delete_annotation
RECURSIVE delete_annotation_loop(_, _, _)
delete_annotation_loop(d, tags, id) ==
    IF tags = <<>> THEN Ok(d, <<>>)
    ELSE IF is_empty(tags[1]) THEN delete_annotation_loop(d, Tail(tags), id)
    ELSE LET r == delete_from_tag_to_annotations_tree(d, tags[1], id) IN
         IF ~r.ok THEN r ELSE delete_annotation_loop(r.db, Tail(tags), id)

\* Delete annotation from database
delete_annotation(d, id) ==
    LET r1 == delete_from_annotation_to_tags_tree(d, id) IN
    IF ~r1.ok THEN r1
    ELSE LET r2 == delete_annotation_loop(r1.db, r1.val, id) IN
         IF ~r2.ok THEN r2
         ELSE Ok(delete_from_annotations_tree(r2.db, id), r1.val)

\* get_tagged_annotations that answers an absent key with an empty list
get_tagged_annotations_or_empty(d, tag) ==
    LET got == TreeGet(d.tag_to_annotations, tag) IN
    IF got = None THEN Ok(d, <<>>) ELSE Ok(d, split_ids(got[1]))

\* Retrieve annotations tagged with a given tag
get_tagged_annotations(d, tag) ==
    LET got == TreeGet(d.tag_to_annotations, tag) IN
    IF got = None THEN Err(d, "TagNotFound", tag) ELSE Ok(d, split_ids(got[1]))

\* get_annotation_tags without the test for the one empty string that
\* split_ids gives for an empty entry
get_annotation_tags_unfiltered(d, id) ==
    LET got == TreeGet(d.annotation_to_tags, id) IN
    IF got = None THEN Err(d, "AnnotationNotFound", id)
    ELSE Ok(d, split_ids(got[1]))

\* Retrieve tags associated with an annotation
get_annotation_tags(d, id) ==
    LET got == TreeGet(d.annotation_to_tags, id) IN
    IF got = None THEN Err(d, "AnnotationNotFound", id)
    ELSE LET tags == split_ids(got[1]) IN
         IF Len(tags) = 1 /\ is_empty(tags[1]) THEN Ok(d, <<>>) ELSE Ok(d, tags)

\* Retrieve annotation by ID
get_annotation(d, id) ==
    LET got == TreeGet(d.annotations, id) IN
    IF got = None THEN Err(d, "AnnotationNotFound", id) ELSE Ok(d, got[1])

\* the `for tag in &annotation.tags` loop of add_annotation
RECURSIVE add_annotation_loop(_, _, _)
add_annotation_loop(tree, tags, annotation_key) ==
    IF tags = <<>> THEN tree
    ELSE IF is_empty(tags[1]) THEN add_annotation_loop(tree, Tail(tags), annotation_key)
    ELSE add_annotation_loop(TreeMerge(tree, tags[1], annotation_key), Tail(tags),
                             annotation_key)

\* Add an annotation to all trees: the two batches are filled, the tag tree is
\* merged into at once.  s carries db and the two pending batches.
add_annotation(s, annotation) ==
    LET annotation_key == annotation.id
        tags == annotation.tags
        tree == s.db.tag_to_annotations
        merged ==
            IF tags = <<>> \/ ~(\E i \in 1..Len(tags) : ~trim_is_empty(tags[i]))
            THEN TreeMerge(tree, EMPTY_TAG, annotation_key)
            ELSE add_annotation_loop(tree, tags, annotation_key)
    IN [s EXCEPT !.annotation_to_tags_batch =
                     BatchInsert(@, annotation_key, join_ids(tags)),
                 !.db = [s.db EXCEPT !.tag_to_annotations = merged],
                 !.annotations_batch = BatchInsert(@, annotation_key, annotation)]

\* the `for annotation in annotations` loop of sync_annotations
RECURSIVE sync_annotations_loop(_, _)
sync_annotations_loop(s, annotations) ==
    IF annotations = <<>> THEN s
    ELSE LET annotation == annotations[1] IN
         IF annotation.id \in DOMAIN s.db.annotation_to_tags
         THEN LET r == delete_annotation(s.db, annotation.id) IN
              IF ~r.ok
              THEN [s EXCEPT !.ok = FALSE, !.db = r.db, !.err = r.err, !.at = r.at]
              ELSE sync_annotations_loop(
                       [add_annotation([s EXCEPT !.db = r.db], annotation)
                           EXCEPT !.updated = @ + 1],
                       Tail(annotations))
         ELSE sync_annotations_loop(
                  [add_annotation(s, annotation) EXCEPT !.added = @ + 1],
                  Tail(annotations))

SyncStart(d) == [ok |-> TRUE, db |-> d, annotation_to_tags_batch |-> <<>>,
                 annotations_batch |-> <<>>, added |-> 0, updated |-> 0,
                 err |-> "", at |-> <<>>]

\* add or update annotations from the Hypothesis API
sync_annotations(d, annotations) ==
    LET s == sync_annotations_loop(SyncStart(d), annotations) IN
    IF ~s.ok THEN Err(s.db, s.err, s.at)
    ELSE Ok([s.db EXCEPT
                !.annotation_to_tags =
                    apply_batch(s.db.annotation_to_tags, s.annotation_to_tags_batch),
                !.annotations = apply_batch(s.db.annotations, s.annotations_batch)],
            <<s.added, s.updated>>)

\* the inner `for tag in &tags` loop of delete_annotations
RECURSIVE delete_annotations_tags(_, _, _)
delete_annotations_tags(d, tags, id) ==
    IF tags = <<>> THEN Ok(d, <<>>)
    ELSE LET r == delete_from_tag_to_annotations_tree(d, tags[1], id) IN
         IF ~r.ok THEN r ELSE delete_annotations_tags(r.db, Tail(tags), id)

\* the `for id in ids` loop of delete_annotations
RECURSIVE delete_annotations_loop(_, _)
delete_annotations_loop(s, ids) ==
    IF ids = <<>> THEN s
    ELSE LET id == ids[1]
             t == get_annotation_tags(s.db, id) IN
         IF ~t.ok THEN [s EXCEPT !.ok = FALSE, !.err = t.err, !.at = t.at]
         ELSE LET r == delete_annotations_tags(s.db, t.val, id) IN
              IF ~r.ok
              THEN [s EXCEPT !.ok = FALSE, !.db = r.db, !.err = r.err, !.at = r.at]
              ELSE delete_annotations_loop(
                       [s EXCEPT !.db = r.db,
                                 !.annotation_to_tags_batch = BatchRemove(@, id),
                                 !.annotations_batch = BatchRemove(@, id),
                                 !.tags_list = Append(@, t.val)],
                       Tail(ids))

\* Delete multiple annotations
delete_annotations(d, ids) ==
    LET s == delete_annotations_loop(
                 [ok |-> TRUE, db |-> d, annotation_to_tags_batch |-> <<>>,
                  annotations_batch |-> <<>>, tags_list |-> <<>>,
                  err |-> "", at |-> <<>>], ids) IN
    IF ~s.ok THEN Err(s.db, s.err, s.at)
    ELSE Ok([s.db EXCEPT
                !.annotation_to_tags =
                    apply_batch(s.db.annotation_to_tags, s.annotation_to_tags_batch),
                !.annotations = apply_batch(s.db.annotations, s.annotations_batch)],
            s.tags_list)

\* ------------------------------------------------------------ inputs
Ids == {<<"1">>, <<"2">>}
TagX == <<"x">>
TagY == <<"y">>
\* tag lists of the annotations handed to the database calls
TagLists == {<<>>, <<TagX>>, <<TagX, TagY>>, <<TagX, TagX>>}
\* tag lists the remote users give their annotations
RemoteTagLists == {<<>>, <<TagX, IGNORE_TAG>>}
\* the users queried by sync: the account's own, then config.hypothesis_users
Users == <<"u1", "u2">>
Owner(id) == IF id = <<"1">> THEN "u1" ELSE "u2"
Annotation(id, tags, updated) ==
    [id |-> id, tags |-> tags, updated |-> updated, user |-> Owner(id)]
Inputs == {Annotation(id, tags, 1) : id \in Ids, tags \in TagLists}

\* tag lists with tags that are empty or blank, alone or next to a real tag
Blank == <<" ">>
BlankTagLists == {<<>>, <<Blank>>, <<TagX, Blank>>, <<TagX, <<>>>>}
BlankInputs == {Annotation(id, tags, 1) : id \in Ids, tags \in BlankTagLists}

\* the lists of at most two elements of S
Lists(S) == {<<>>} \cup {<<a>> : a \in S} \cup {<<a, b>> : a \in S, b \in S}

\* no tag key lists more than MaxEntryLen ids
WithinBounds(d) ==
    \A k \in DOMAIN d.tag_to_annotations :
        Len(split_ids(d.tag_to_annotations[k])) <= MaxEntryLen

\* ------------------------------------------------------------ state machine
Init ==
    /\ db = EmptyDb
    /\ last_sync_time = None
    /\ last = [op |-> "new", arg |-> <<>>, ok |-> TRUE, err |-> ""]
    /\ nops = 0
    /\ remote = EmptyTree
    /\ clock = 1
    /\ pc = "idle"
    /\ sync_time = MIN_DATE
    /\ user_ix = 1
    /\ fetched = <<>>
    /\ counts = <<0, 0>>
    /\ quiet = FALSE
    /\ observed = {}
    /\ shown = <<>>

SyncVarsUnchanged ==
    UNCHANGED <<last_sync_time, remote, clock, pc, sync_time, user_ix, fetched,
                counts, quiet, shown>>

\* the tag keys add_annotation is handed with one annotation: its tags, and
\* EMPTY_TAG when it has no tag that is more than blanks
ObservedOn(annotation) ==
    {annotation.tags[i] : i \in 1..Len(annotation.tags)}
        \cup (IF \A i \in 1..Len(annotation.tags) : trim_is_empty(annotation.tags[i])
              THEN {EMPTY_TAG} ELSE {})

\* the same for every annotation that the loop of sync_annotations reaches
\* add_annotation with
ObservedIn(d, annotations) ==
    LET added == sync_annotations_loop(SyncStart(d), annotations).annotations_batch
    IN UNION {ObservedOn(added[i].value) : i \in 1..Len(added)}

\* a call of sync_annotations(annotations) on the open database
SyncAnnotations(annotations) ==
    LET r == sync_annotations(db, annotations) IN
    /\ nops < MaxOps
    /\ nops' = nops + 1
    /\ db' = r.db
    /\ last' = [op |-> "sync_annotations", arg |-> annotations, ok |-> r.ok,
                err |-> r.err]
    /\ observed' = observed \cup ObservedIn(db, annotations)
    /\ SyncVarsUnchanged

\* a call of delete_annotation(id)
DeleteAnnotation(id) ==
    LET r == delete_annotation(db, id) IN
    /\ nops < MaxOps
    /\ nops' = nops + 1
    /\ db' = r.db
    /\ last' = [op |-> "delete_annotation", arg |-> id, ok |-> r.ok, err |-> r.err]
    /\ UNCHANGED observed
    /\ SyncVarsUnchanged

\* a call of delete_annotations(ids)
DeleteAnnotations(ids) ==
    LET r == delete_annotations(db, ids) IN
    /\ nops < MaxOps
    /\ nops' = nops + 1
    /\ db' = r.db
    /\ last' = [op |-> "delete_annotations", arg |-> ids, ok |-> r.ok, err |-> r.err]
    /\ UNCHANGED observed
    /\ SyncVarsUnchanged

\* the database calls, on annotations drawn from `inputs`
IndexNext(inputs) ==
    \/ \E annotations \in Lists(inputs) : SyncAnnotations(annotations)
    \/ \E id \in Ids : DeleteAnnotation(id)
    \/ \E ids \in Lists(Ids) : DeleteAnnotations(ids)

Next == IndexNext(Inputs)

Spec == Init /\ [][Next]_vars

\* the same calls on annotations with empty and blank tags
BlankNext == IndexNext(BlankInputs)

BlankSpec == Init /\ [][BlankNext]_vars

\* tags that hold the delimiter of the index values or equal the sentinel key
DelimTag == <<"x", SEMICOLON, "y">>
ReservedTagLists == {<<>>, <<TagX>>, <<DelimTag>>, <<EMPTY_TAG>>}
ReservedInputs == {Annotation(id, tags, 1) : id \in Ids, tags \in ReservedTagLists}

\* the same calls on annotations with such tags
ReservedNext == IndexNext(ReservedInputs)

ReservedSpec == Init /\ [][ReservedNext]_vars

\* ------------------------------------------------------------ sync (mod.rs)
\* get_sync_time that takes the current time when no time is stored
get_sync_time_or_now == IF last_sync_time = None THEN clock ELSE last_sync_time[1]

\* Get time of last sync
get_sync_time == IF last_sync_time = None THEN MIN_DATE ELSE last_sync_time[1]

\* ascending by `updated` (Order::Asc on the default sort field)
RECURSIVE SortByUpdated(_)
SortByUpdated(S) ==
    IF S = {} THEN <<>>
    ELSE LET first == CHOOSE a \in S : \A b \in S : a.updated <= b.updated
         IN <<first>> \o SortByUpdated(S \ {first})

\* the search on a given content of Hypothesis: every annotation of the user
\* updated after `after`, oldest first
search_annotations_in(rem, user_id, after) ==
    SortByUpdated({rem[id] : id \in {i \in DOMAIN rem :
                       rem[i].user = user_id /\ rem[i].updated > after}})

\* api.search_annotations_return_all
search_annotations_return_all(user_id, after) ==
    search_annotations_in(remote, user_id, after)

DbVarsUnchanged == UNCHANGED <<db, last, nops, observed, shown>>

\* pc of a sync run that has ended: returned Ok, returned an error, or was killed
Ended == {"done", "remote_error", "db_error", "interrupted", "no_groups"}

\* sync up to the read of the last sync time
SyncBegin ==
    /\ pc = "idle"
    /\ pc' = "fetch"
    /\ sync_time' = get_sync_time
    /\ quiet' = TRUE
    /\ DbVarsUnchanged
    /\ UNCHANGED <<last_sync_time, remote, clock, user_ix, fetched, counts>>

\* one round of `for user_id in user_ids`: the query succeeds
SyncFetch ==
    /\ pc = "fetch"
    /\ fetched' = fetched \o search_annotations_return_all(Users[user_ix], sync_time)
    /\ user_ix' = user_ix + 1
    /\ pc' = IF user_ix = Len(Users) THEN "apply" ELSE "fetch"
    /\ DbVarsUnchanged
    /\ UNCHANGED <<last_sync_time, remote, clock, sync_time, counts, quiet>>

\* sync that stores the time of a failed query before `?` returns
SyncFetchFailMovesCursor ==
    /\ pc = "fetch"
    /\ pc' = "remote_error"
    /\ last_sync_time' = Some(clock)
    /\ DbVarsUnchanged
    /\ UNCHANGED <<remote, clock, sync_time, user_ix, fetched, counts, quiet>>

\* one round of `for user_id in user_ids`: the query fails and `?` returns
SyncFetchFail ==
    /\ pc = "fetch"
    /\ pc' = "remote_error"
    /\ DbVarsUnchanged
    /\ UNCHANGED <<last_sync_time, remote, clock, sync_time, user_ix, fetched, counts,
                   quiet>>

\* sync with set_sync_time moved in front of the `?` of sync_annotations: the
\* cursor is written whether or not the records were applied
SyncApplyCursorFirst ==
    LET r == sync_annotations(db, fetched) IN
    /\ pc = "apply"
    /\ WithinBounds(r.db)
    /\ db' = r.db
    /\ last_sync_time' = Some(clock)
    /\ pc' = IF r.ok THEN "set" ELSE "db_error"
    /\ counts' = IF r.ok THEN r.val ELSE counts
    /\ observed' = observed \cup ObservedIn(db, fetched)
    /\ UNCHANGED <<last, nops, remote, clock, sync_time, user_ix, fetched, quiet,
                   shown>>

\* self.sync_annotations(annotations)?
SyncApply ==
    LET r == sync_annotations(db, fetched) IN
    /\ pc = "apply"
    /\ WithinBounds(r.db)
    /\ db' = r.db
    /\ pc' = IF r.ok THEN "set" ELSE "db_error"
    /\ counts' = IF r.ok THEN r.val ELSE counts
    /\ observed' = observed \cup ObservedIn(db, fetched)
    /\ UNCHANGED <<last, nops, last_sync_time, remote, clock, sync_time, user_ix,
                   fetched, quiet, shown>>

\* self.set_sync_time(&Utc::now().to_rfc3339())? and the report.  Utc::now()
\* is later than every timestamp handed out before it.
SyncSetTime ==
    /\ pc = "set"
    /\ clock < MaxClock
    /\ clock' = clock + 1
    /\ last_sync_time' = Some(clock')
    /\ pc' = "done"
    /\ DbVarsUnchanged
    /\ UNCHANGED <<remote, sync_time, user_ix, fetched, counts, quiet>>

\* the process is terminated between two steps of sync
SyncInterrupt ==
    /\ pc \in {"fetch", "apply", "set"}
    /\ pc' = "interrupted"
    /\ DbVarsUnchanged
    /\ UNCHANGED <<last_sync_time, remote, clock, sync_time, user_ix, fetched, counts,
                   quiet>>

\* the process is terminated inside sync_annotations: after n annotations of
\* the loop, or (n past the list) between the two apply_batch calls
SyncInterruptApply(n) ==
    LET s == sync_annotations_loop(SyncStart(db),
                 SubSeq(fetched, 1, IF n > Len(fetched) THEN Len(fetched) ELSE n))
    IN
    /\ pc = "apply"
    /\ s.ok
    /\ WithinBounds(s.db)
    /\ db' = IF n > Len(fetched)
             THEN [s.db EXCEPT !.annotation_to_tags =
                       apply_batch(s.db.annotation_to_tags, s.annotation_to_tags_batch)]
             ELSE s.db
    /\ pc' = "interrupted"
    /\ observed' = observed \cup UNION {ObservedOn(s.annotations_batch[i].value) :
                                          i \in 1..Len(s.annotations_batch)}
    /\ UNCHANGED <<last, nops, last_sync_time, remote, clock, sync_time, user_ix,
                   fetched, counts, quiet, shown>>

\* the run is over: its locals are gone
SyncEnd ==
    /\ pc \in Ended
    /\ pc' = "idle"
    /\ sync_time' = MIN_DATE
    /\ user_ix' = 1
    /\ fetched' = <<>>
    /\ counts' = <<0, 0>>
    /\ quiet' = FALSE
    /\ DbVarsUnchanged
    /\ UNCHANGED <<last_sync_time, remote, clock>>

\* a user creates or edits an annotation on Hypothesis, which stamps `updated`
RemoteUpsert(id, tags) ==
    /\ clock < MaxClock
    /\ clock' = clock + 1
    /\ remote' = TreeInsert(remote, id, Annotation(id, tags, clock'))
    /\ quiet' = FALSE
    /\ DbVarsUnchanged
    /\ UNCHANGED <<last_sync_time, pc, sync_time, user_ix, fetched, counts>>

SyncNext ==
    \/ SyncBegin
    \/ SyncFetch
    \/ SyncFetchFail
    \/ SyncApply
    \/ SyncSetTime
    \/ SyncInterrupt
    \/ \E n \in 1..(Len(fetched) + 1) : SyncInterruptApply(n)
    \/ SyncEnd
    \/ \E id \in Ids, tags \in RemoteTagLists : RemoteUpsert(id, tags)

SyncSpec == Init /\ [][SyncNext]_vars

\* sync of a configuration without groups, if it went on to store the time
SyncNoGroupsSetsTime ==
    /\ pc = "idle"
    /\ pc' = "no_groups"
    /\ quiet' = TRUE
    /\ last_sync_time' = Some(clock)
    /\ DbVarsUnchanged
    /\ UNCHANGED <<remote, clock, sync_time, user_ix, fetched, counts>>

\* sync run with a configuration whose hypothesis_groups is empty:
\* "No groups to sync!" and Ok(()) before any query
SyncNoGroups ==
    /\ pc = "idle"
    /\ pc' = "no_groups"
    /\ quiet' = TRUE
    /\ DbVarsUnchanged
    /\ UNCHANGED <<last_sync_time, remote, clock, sync_time, user_ix, fetched, counts>>

\* (re)sets time of last sync to way in the past
ResetSyncTime ==
    /\ pc = "idle"
    /\ last_sync_time' = Some(MIN_DATE)
    /\ last' = [op |-> "reset_sync_time", arg |-> last_sync_time, ok |-> TRUE, err |-> ""]
    /\ UNCHANGED <<db, nops, observed, shown, remote, clock, pc, sync_time, user_ix,
                   fetched, counts, quiet>>

\* Gooseberry::clear: once confirmed, every file of db_dir is removed and
\* reset_sync_time writes through the open handle, whose files are unlinked:
\* the next run opens a new database, with the key if the write reached it
ClearCommand(confirmed) ==
    /\ pc = "idle"
    /\ IF confirmed
       THEN /\ db' = EmptyDb
            /\ last_sync_time' \in {None, Some(MIN_DATE)}
            /\ observed' = {}
            /\ last' = [op |-> "clear", arg |-> last_sync_time, ok |-> TRUE, err |-> ""]
       ELSE /\ last' = [op |-> "clear", arg |-> last_sync_time, ok |-> FALSE,
                        err |-> "DoingNothing"]
            /\ UNCHANGED <<db, last_sync_time, observed>>
    /\ UNCHANGED <<nops, shown, remote, clock, pc, sync_time, user_ix, fetched, counts,
                   quiet>>

\* syncs without failures, with and without groups, reset_sync_time and clear
ResetNext ==
    \/ SyncBegin
    \/ SyncFetch
    \/ SyncApply
    \/ SyncSetTime
    \/ SyncEnd
    \/ \E id \in Ids, tags \in RemoteTagLists : RemoteUpsert(id, tags)
    \/ SyncNoGroups
    \/ ResetSyncTime
    \/ \E confirmed \in BOOLEAN : ClearCommand(confirmed)

ResetSpec == Init /\ [][ResetNext]_vars

\* ------------------------------------------------------------ filters (mod.rs)
\* str::contains: pat occurs in s
contains(s, pat) ==
    \E i \in 0..(Len(s) - Len(pat)) : SubSeq(s, i + 1, i + Len(pat)) = pat

\* Vec<&str>::join(" ")
RECURSIVE join_spaces(_)
join_spaces(strs) ==
    IF strs = <<>> THEN <<>>
    ELSE IF Len(strs) = 1 THEN strs[1]
    ELSE strs[1] \o <<" ">> \o join_spaces(Tail(strs))

\* the `exact` of every TextQuoteSelector of every target
RECURSIVE get_quotes_of(_)
get_quotes_of(targets) ==
    IF targets = <<>> THEN <<>>
    ELSE LET IsQuote(sel) == sel.type = "TextQuoteSelector"
             quotes == SelectSeq(targets[1].selector, IsQuote)
         IN [i \in 1..Len(quotes) |-> quotes[i].exact] \o get_quotes_of(Tail(targets))

get_quotes(annotation) == get_quotes_of(annotation.target)

\* config.hypothesis_groups: group id -> group name
hypothesis_groups == [g \in {"g1"} |-> "Public"]

\* Filters::default(): no flag given
NoFilters ==
    [from |-> None, before |-> None, include_updated |-> FALSE, uri |-> <<>>,
     any |-> <<>>, tags |-> <<>>, exclude_tags |-> <<>>, quote |-> <<>>,
     text |-> <<>>, not |-> FALSE, and |-> FALSE, page |-> FALSE,
     annotation |-> FALSE, groups |-> <<>>]

\* the test on groups at the head of filter_annotation
in_groups(annotation, filters) ==
    LET name == IF annotation.group \in DOMAIN hypothesis_groups
                THEN hypothesis_groups[annotation.group] ELSE annotation.group
        groups == {filters.groups[i] : i \in 1..Len(filters.groups)}
    IN ~(filters.groups # <<>> /\ annotation.group \notin groups /\ name \notin groups)

\* the tests on page notes and on the two dates
in_kind_and_time(annotation, filters) ==
    LET selectors == {annotation.target[i].selector : i \in 1..Len(annotation.target)}
        date == IF filters.include_updated THEN annotation.updated ELSE annotation.created
    IN /\ ~(filters.page /\ \E sel \in selectors : sel # <<>>)
       /\ ~(filters.annotation /\ \A sel \in selectors : sel = <<>>)
       /\ ~(filters.from # None /\ date < filters.from[1])
       /\ ~(filters.before # None /\ date > filters.before[1])

\* the tests on uri and on the pattern looked for in quote, tags, text or uri
in_patterns(annotation, filters) ==
    /\ ~(filters.uri # <<>> /\ ~contains(annotation.uri, filters.uri))
    /\ \/ filters.any = <<>>
       \/ contains(join_spaces(get_quotes(annotation)), filters.any)
       \/ \E i \in 1..Len(annotation.tags) : contains(annotation.tags[i], filters.any)
       \/ contains(annotation.text, filters.any)
       \/ contains(annotation.uri, filters.any)

\* in_tags that asks for all-of whether or not --and is given
in_tags_all_of(annotation, filters) ==
    LET tags == {annotation.tags[i] : i \in 1..Len(annotation.tags)}
        asked == {filters.tags[i] : i \in 1..Len(filters.tags)}
        excluded == {filters.exclude_tags[i] : i \in 1..Len(filters.exclude_tags)}
    IN /\ filters.tags # <<>> => \A t \in tags : t \in asked
       /\ ~(filters.exclude_tags # <<>> /\ \E t \in tags : t \in excluded)

\* in_tags without the test on excluded tags
in_tags_no_exclude(annotation, filters) ==
    LET tags == {annotation.tags[i] : i \in 1..Len(annotation.tags)}
        asked == {filters.tags[i] : i \in 1..Len(filters.tags)}
    IN filters.tags # <<>>
       => IF filters.and
          THEN \A t \in tags : t \in asked
          ELSE \E t \in tags : t \in asked

\* the tests on tags and on excluded tags
in_tags(annotation, filters) ==
    LET tags == {annotation.tags[i] : i \in 1..Len(annotation.tags)}
        asked == {filters.tags[i] : i \in 1..Len(filters.tags)}
        excluded == {filters.exclude_tags[i] : i \in 1..Len(filters.exclude_tags)}
    IN /\ filters.tags # <<>>
          => IF filters.and
             THEN \A t \in tags : t \in asked
             ELSE \E t \in tags : t \in asked
       /\ ~(filters.exclude_tags # <<>> /\ \E t \in tags : t \in excluded)

\* the tests on quote and on text
in_quote_and_text(annotation, filters) ==
    /\ ~(filters.quote # <<>>
            /\ ~contains(join_spaces(get_quotes(annotation)), filters.quote))
    /\ ~(filters.text # <<>> /\ ~contains(annotation.text, filters.text))

\* true when no test of filter_annotation returns false
filter_annotation(annotation, filters) ==
    /\ in_groups(annotation, filters)
    /\ in_kind_and_time(annotation, filters)
    /\ in_patterns(annotation, filters)
    /\ in_tags(annotation, filters)
    /\ in_quote_and_text(annotation, filters)

\* the keys of the annotations tree, in the byte order sled iterates in
FilterIds == <<<<"1">>, <<"2">>, <<"3">>>>

\* the records of the annotations tree, in key order
iter_annotations(d) ==
    LET Present(id) == id \in DOMAIN d.annotations
        keys == SelectSeq(FilterIds, Present)
    IN [i \in 1..Len(keys) |-> d.annotations[keys[i]]]

\* no sort: the list stays in key order
unsorted(annotations) == annotations

\* Vec::sort_by(|a, b| a.created.cmp(&b.created)): stable, ascending
RECURSIVE sort_by_created(_)
sort_by_created(annotations) ==
    IF annotations = <<>> THEN <<>>
    ELSE LET n == Len(annotations)
             sorted == sort_by_created(SubSeq(annotations, 1, n - 1))
             x == annotations[n]
             NotAfter(a) == a.created <= x.created
             After(a) == a.created > x.created
         IN SelectSeq(sorted, NotAfter) \o <<x>> \o SelectSeq(sorted, After)

\* filter_annotations that does not look at --not
filter_annotations_ignoring_not(d, filters) ==
    LET Kept(annotation) == filter_annotation(annotation, filters)
    IN sort_by_created(SelectSeq(iter_annotations(d), Kept))

\* Filter annotations based on command-line flags
filter_annotations(d, filters) ==
    LET Kept(annotation) ==
            IF filters.not THEN ~filter_annotation(annotation, filters)
            ELSE filter_annotation(annotation, filters)
    IN sort_by_created(SelectSeq(iter_annotations(d), Kept))

\* ------------------------------------------------------------ filter inputs
TagA == <<"a">>
TagB == <<"b">>
TagC == <<"c">>
FilterTagLists == {<<>>, <<TagA>>, <<TagA, TagB>>, <<TagA, TagB, TagC>>}

\* an annotation of a page (with a quote selector) or a page note (without)
FilterAnnotation(id, tags, created, updated, is_note) ==
    [id |-> id, tags |-> tags, updated |-> updated, user |-> "u1",
     created |-> created, group |-> "g1", uri |-> <<"w">>, text |-> <<"n">>,
     target |-> <<[selector |-> IF is_note THEN <<>>
                                ELSE <<[type |-> "TextQuoteSelector", exact |-> <<"q">>]>>]>>]

\* when the three annotations were created and last updated
FilterTimes == {
    [created |-> <<3, 1, 2>>, updated |-> <<3, 3, 2>>],
    [created |-> <<2, 2, 1>>, updated |-> <<2, 3, 3>>] }

\* the lists of three annotations a first sync stores
FilterStores ==
    {<<FilterAnnotation(FilterIds[1], t1, times.created[1], times.updated[1], FALSE),
       FilterAnnotation(FilterIds[2], t2, times.created[2], times.updated[2], FALSE),
       FilterAnnotation(FilterIds[3], <<TagA, TagB>>, times.created[3],
                        times.updated[3], TRUE)>> :
        t1 \in FilterTagLists, t2 \in FilterTagLists, times \in FilterTimes}

\* the flags given on the command line: --and requires --tags, --before
\* conflicts with --from
FilterQueries ==
    {f \in {[NoFilters EXCEPT !.tags = tags, !.and = and, !.not = not,
                              !.exclude_tags = exclude_tags, !.from = dates[1],
                              !.before = dates[2],
                              !.include_updated = include_updated] :
               tags \in {<<>>, <<TagA>>, <<TagA, TagB>>}, and \in BOOLEAN,
               not \in BOOLEAN, exclude_tags \in {<<>>, <<TagC>>},
               dates \in {<<None, None>>, <<Some(2), None>>, <<None, Some(2)>>},
               include_updated \in BOOLEAN} :
        f.and => f.tags # <<>>}

\* the database after a first sync of three annotations
FilterInit ==
    \E annotations \in FilterStores :
        /\ db = sync_annotations(EmptyDb, annotations).db
        /\ last = [op |-> "sync_annotations", arg |-> annotations, ok |-> TRUE,
                   err |-> ""]
        /\ nops = 1
        /\ observed = ObservedIn(EmptyDb, annotations)
        /\ shown = <<>>
        /\ last_sync_time = None
        /\ remote = EmptyTree
        /\ clock = 1
        /\ pc = "idle"
        /\ sync_time = MIN_DATE
        /\ user_ix = 1
        /\ fetched = <<>>
        /\ counts = <<0, 0>>
        /\ quiet = FALSE

\* a call of filter_annotations(filters)
FilterAnnotations(filters) ==
    /\ shown' = filter_annotations(db, filters)
    /\ last' = [op |-> "filter_annotations", arg |-> filters, ok |-> TRUE, err |-> ""]
    /\ UNCHANGED <<db, nops, observed, last_sync_time, remote, clock, pc, sync_time,
                   user_ix, fetched, counts, quiet>>

FilterNext == \E filters \in FilterQueries : FilterAnnotations(filters)

FilterSpec == FilterInit /\ [][FilterNext]_vars

\* ------------------------------------------------------------ commands (mod.rs)
\* the `for user_id in user_ids` loop of sync, from user number i on
RECURSIVE fetch_from(_, _, _)
fetch_from(rem, after, i) ==
    IF i > Len(Users) THEN <<>>
    ELSE search_annotations_in(rem, Users[i], after) \o fetch_from(rem, after, i + 1)

\* api.update_annotations: Hypothesis replaces each annotation and stamps it
RECURSIVE update_annotations(_, _, _)
update_annotations(rem, annotations, now) ==
    IF annotations = <<>> THEN rem
    ELSE update_annotations(
             TreeInsert(rem, annotations[1].id, [annotations[1] EXCEPT !.updated = now]),
             Tail(annotations), now)

\* api.delete_annotations
RECURSIVE api_delete_annotations(_, _)
api_delete_annotations(rem, ids) ==
    IF ids = <<>> THEN rem
    ELSE api_delete_annotations(TreeRemove(rem, ids[1]), Tail(ids))

\* add_tags: the annotations it sends to Hypothesis
add_tags(annotations, tags) ==
    LET has(a, tag) == \E i \in 1..Len(a.tags) : a.tags[i] = tag
        Fresh(a) == \A j \in 1..Len(tags) : ~has(a, tags[j])
        kept == SelectSeq(annotations, Fresh)
    IN [i \in 1..Len(kept) |-> [kept[i] EXCEPT !.tags = @ \o tags]]

\* delete_tags that drops the tag list of each annotation it sends
delete_tags_dropping_all(annotations, tags) ==
    LET has(a, tag) == \E i \in 1..Len(a.tags) : a.tags[i] = tag
        Tagged(a) == \E j \in 1..Len(tags) : has(a, tags[j])
        kept == SelectSeq(annotations, Tagged)
    IN [i \in 1..Len(kept) |-> [kept[i] EXCEPT !.tags = <<>>]]

\* delete_tags: the annotations it sends to Hypothesis
delete_tags(annotations, tags) ==
    LET has(a, tag) == \E i \in 1..Len(a.tags) : a.tags[i] = tag
        Tagged(a) == \E j \in 1..Len(tags) : has(a, tags[j])
        Other(t) == \A j \in 1..Len(tags) : t # tags[j]
        kept == SelectSeq(annotations, Tagged)
    IN [i \in 1..Len(kept) |-> [kept[i] EXCEPT !.tags = SelectSeq(@, Other)]]

\* ------------------------------------------------------------ command inputs
CommandTagLists == {<<>>, <<TagA>>, <<TagA, TagB>>, <<TagB, TagC>>, <<TagA, TagA>>}

\* the two annotations on Hypothesis when the first sync ran
CommandStores ==
    {<<FilterAnnotation(FilterIds[1], t1, 1, 1, FALSE),
       FilterAnnotation(FilterIds[2], t2, 1, 1, FALSE)>> :
        t1 \in CommandTagLists, t2 \in CommandTagLists}

\* the filters that select the annotations of a command
CommandQueries == {NoFilters, [NoFilters EXCEPT !.tags = <<TagB>>]}

\* the tags given to the tag command
CommandTags == {<<TagA>>, <<TagA, TagB>>}

\* Hypothesis and the database after a first sync at time 2
CommandInit ==
    \E annotations \in CommandStores :
        /\ remote = [id \in {annotations[i].id : i \in 1..Len(annotations)} |->
                        CHOOSE a \in {annotations[i] : i \in 1..Len(annotations)} :
                            a.id = id]
        /\ db = sync_annotations(EmptyDb, annotations).db
        /\ last = [op |-> "sync_annotations", arg |-> annotations, ok |-> TRUE,
                   err |-> ""]
        /\ nops = 1
        /\ observed = ObservedIn(EmptyDb, annotations)
        /\ shown = <<>>
        /\ clock = 2
        /\ last_sync_time = Some(2)
        /\ pc = "idle"
        /\ sync_time = MIN_DATE
        /\ user_ix = 1
        /\ fetched = <<>>
        /\ counts = <<0, 0>>
        /\ quiet = FALSE

\* GooseberrySubcommand::Tag: filter_annotations, then tag, which updates
\* Hypothesis at time clock + 1 and runs sync, whose Utc::now() is clock + 2
TagCommand(filters, delete, tags) ==
    \E annotations \in {filter_annotations(db, filters)} :
    \E updates \in {IF delete THEN delete_tags(annotations, tags)
                     ELSE add_tags(annotations, tags)} :
    \E rem \in {update_annotations(remote, updates, clock + 1)} :
    \E after \in {get_sync_time} :
    \E found \in {fetch_from(rem, after, 1)} :
    \E r \in {sync_annotations(db, found)} :
        /\ nops < MaxOps
        /\ clock + 2 <= MaxClock
        /\ nops' = nops + 1
        /\ shown' = annotations
        /\ IF updates = <<>>
           THEN /\ last' = [op |-> "tag", arg |-> [delete |-> delete, tags |-> tags],
                            ok |-> TRUE, err |-> ""]
                /\ UNCHANGED <<db, remote, clock, last_sync_time, observed>>
           ELSE /\ remote' = rem
                /\ clock' = clock + 2
                /\ db' = r.db
                /\ last_sync_time' = IF r.ok THEN Some(clock + 2) ELSE last_sync_time
                /\ observed' = observed \cup ObservedIn(db, found)
                /\ last' = [op |-> "tag", arg |-> [delete |-> delete, tags |-> tags],
                            ok |-> r.ok, err |-> r.err]
        /\ UNCHANGED <<pc, sync_time, user_ix, fetched, counts, quiet>>

\* GooseberrySubcommand::Delete: filter_annotations, then delete, which
\* deletes from the database and then from Hypothesis
DeleteCommand(filters, confirmed) ==
    \E annotations \in {filter_annotations(db, filters)} :
    \E ids \in {[i \in 1..Len(annotations) |-> annotations[i].id]} :
    \E r \in {delete_annotations(db, ids)} :
        /\ nops < MaxOps
        /\ nops' = nops + 1
        /\ shown' = annotations
        /\ IF annotations # <<>> /\ confirmed
           THEN /\ db' = r.db
                /\ remote' = IF r.ok THEN api_delete_annotations(remote, ids)
                              ELSE remote
                /\ last' = [op |-> "delete", arg |-> ids, ok |-> r.ok, err |-> r.err]
           ELSE /\ last' = [op |-> "delete", arg |-> <<>>, ok |-> TRUE, err |-> ""]
                /\ UNCHANGED <<db, remote>>
        /\ UNCHANGED <<observed, clock, last_sync_time, pc, sync_time, user_ix,
                       fetched, counts, quiet>>

\* GooseberrySubcommand::Delete, confirmed, on a non-empty selection: the
\* database call succeeds, then self.api.delete_annotations(&ids).await? fails
DeleteCommandRemoteFails(filters) ==
    \E annotations \in {filter_annotations(db, filters)} :
    \E ids \in {[i \in 1..Len(annotations) |-> annotations[i].id]} :
    \E r \in {delete_annotations(db, ids)} :
        /\ nops < MaxOps
        /\ annotations # <<>>
        /\ r.ok
        /\ nops' = nops + 1
        /\ shown' = annotations
        /\ db' = r.db
        /\ last' = [op |-> "delete", arg |-> ids, ok |-> FALSE, err |-> "HypothesisError"]
        /\ UNCHANGED <<remote, observed, clock, last_sync_time, pc, sync_time, user_ix,
                       fetched, counts, quiet>>

CommandNext ==
    \/ \E filters \in CommandQueries, delete \in BOOLEAN, tags \in CommandTags :
           TagCommand(filters, delete, tags)
    \/ \E filters \in CommandQueries, confirmed \in BOOLEAN :
           DeleteCommand(filters, confirmed)
    \/ \E filters \in CommandQueries : DeleteCommandRemoteFails(filters)

CommandSpec == CommandInit /\ [][CommandNext]_vars

\* ------------------------------------------------------------ observations
Range(seq) == {seq[i] : i \in 1..Len(seq)}

\* what a caller sees of a result
Seen(r) == [ok |-> r.ok, val |-> r.val, err |-> r.err]

\* the tags get_annotation_tags reports for id, none if it reports an error
tags_of(d, id) ==
    LET r == get_annotation_tags(d, id) IN IF r.ok THEN Range(r.val) ELSE {}

\* the ids get_tagged_annotations reports for tag, none if it reports TagNotFound
annotations_of(d, tag) ==
    LET r == get_tagged_annotations(d, tag) IN IF r.ok THEN Range(r.val) ELSE {}

\* every tag the database knows of, as a key or in a stored tag list
KnownTags(d) ==
    (DOMAIN d.tag_to_annotations)
        \cup UNION {tags_of(d, id) : id \in DOMAIN d.annotation_to_tags}

\* the keys under which an annotation with these tags is to be listed
KeysFor(tags) ==
    LET real == {t \in Range(tags) : ~trim_is_empty(t)} IN
    IF real = {} THEN {EMPTY_TAG} ELSE real

\* both tag mappings agree on every stored annotation
Bidirectional(d) ==
    \A id \in DOMAIN d.annotations :
        /\ \A t \in KnownTags(d) \ {EMPTY_TAG} :
               (t \in tags_of(d, id)) <=> (id \in annotations_of(d, t))
        /\ (tags_of(d, id) = {}) <=> (id \in annotations_of(d, EMPTY_TAG))

\* id is listed under no tag key
Unlisted(d, id) == \A t \in DOMAIN d.tag_to_annotations : id \notin annotations_of(d, t)

\* record, annotation->tags entry and tag memberships of every id: all or none
AllOrNothing(d) ==
    \A id \in Ids :
        /\ (id \in DOMAIN d.annotations) <=> (id \in DOMAIN d.annotation_to_tags)
        /\ (id \in DOMAIN d.annotations) <=> ~Unlisted(d, id)

\* ------------------------------------------------------------ claims, Spec

\* C1: after any sequence of sync_annotations, delete_annotation and
\* delete_annotations calls, for every id in the annotations tree and every
\* tag t, t is in get_annotation_tags(id) iff id is in get_tagged_annotations(t);
\* an empty tag set corresponds to membership under EMPTY_TAG only.
C1_BidirectionalConsistency == Bidirectional(db)

\* C2: when sync_annotations upserts an annotation whose id is already stored,
\* afterwards the id is listed under tag t exactly when t is in the new tag
\* set (EMPTY_TAG for an empty one); no tag of the old version alone lists it.
C2_UpsertReplacesMemberships ==
    [][\A a \in Inputs :
          (/\ Bidirectional(db)
           /\ a.id \in DOMAIN db.annotation_to_tags
           /\ SyncAnnotations(<<a>>))
          => \A t \in KnownTags(db) \cup KnownTags(db') \cup KeysFor(a.tags) :
                 (a.id \in annotations_of(db', t)) <=> (t \in KeysFor(a.tags))]_vars

\* C3: for every annotation a that is not yet stored, sync_annotations([a])
\* followed by delete_annotation(a.id) restores the contents of all three
\* trees, and get_annotation(a.id) then returns AnnotationNotFound.
C3_UpsertDeleteRoundTrip ==
    [][\A a \in Inputs :
          (/\ Bidirectional(db)
           /\ a.id \notin DOMAIN db.annotation_to_tags
           /\ a.id \notin DOMAIN db.annotations
           /\ Unlisted(db, a.id)
           /\ SyncAnnotations(<<a>>))
          => LET r == delete_annotation(db', a.id) IN
             /\ r.ok
             /\ r.db = db
             /\ Unlisted(r.db, a.id)
             /\ get_annotation(r.db, a.id).err = "AnnotationNotFound"]_vars

\* C4: applying sync_annotations([a]) twice in succession yields the same
\* get_annotation_tags and get_tagged_annotations results, for every id and
\* every tag including EMPTY_TAG, as applying it once.
C4_UpsertIdempotent ==
    [][\A a \in Inputs :
          (/\ Bidirectional(db)
           /\ SyncAnnotations(<<a>>))
          => LET twice == sync_annotations(db', <<a>>).db IN
             /\ \A id \in Ids :
                    Seen(get_annotation_tags(twice, id)) = Seen(get_annotation_tags(db', id))
             /\ \A t \in KnownTags(db') \cup KnownTags(twice) \cup {EMPTY_TAG} :
                    Seen(get_tagged_annotations(twice, t))
                        = Seen(get_tagged_annotations(db', t))]_vars

\* C10: whenever sync_annotations, delete_annotation or delete_annotations
\* stops early with an error, each annotation's record, its annotation->tags
\* entry and its tag->annotations memberships are all applied or none applied.
C10_FailedCallAllOrNothing ==
    [][(AllOrNothing(db) /\ nops' = nops + 1 /\ ~last'.ok) => AllOrNothing(db')]_vars

\* ------------------------------------------------------------ claims, SyncSpec
HasIgnoreTag(a) == IGNORE_TAG \in Range(a.tags)

\* the greatest `updated` of a non-empty list of annotations
MaxUpdated(annotations) ==
    CHOOSE u \in {a.updated : a \in Range(annotations)} :
        \A a \in Range(annotations) : a.updated <= u

\* every annotation of the list is in the three trees as its last occurrence
\* in the list gives it
AllApplied(d, annotations) ==
    \A i \in 1..Len(annotations) :
        LET a == annotations[i] IN
        (\A j \in (i + 1)..Len(annotations) : annotations[j].id # a.id)
        => /\ TreeGet(d.annotations, a.id) = Some(a)
           /\ TreeGet(d.annotation_to_tags, a.id) = Some(join_ids(a.tags))
           /\ \A t \in KeysFor(a.tags) : a.id \in annotations_of(d, t)

\* C5: once the remote stops changing and one further sync completes
\* successfully, every remote annotation (not marked to be ignored) is stored
\* locally with its latest remote content.
C5_SyncLosesNoRecord ==
    (pc = "done" /\ quiet)
    => \A id \in DOMAIN remote :
           ~HasIgnoreTag(remote[id]) => TreeGet(db.annotations, id) = Some(remote[id])

\* C6: re-running sync from an unchanged cursor against an identical remote
\* result produces the same record store and tag mappings as running it once.
C6_SyncIdempotent ==
    pc = "set" => sync_annotations(db, fetched).db = db

\* C7: the cursor is written only by set_sync_time, only after every fetched
\* record has been applied, and by no other step: an interruption at any
\* step leaves it where it was, so the next sync redoes the run.
C7_CursorAfterApply ==
    [][last_sync_time' # last_sync_time
          => /\ pc = "set"
             /\ AllApplied(db, fetched)
             /\ db' = db
             /\ fetched' = fetched]_vars

\* C7 witness: a run that fetched records has ended and moved the cursor
C7_Witness ==
    /\ pc = "done"
    /\ fetched # <<>>
    /\ last_sync_time # None
    /\ get_sync_time > sync_time
    /\ AllApplied(db, fetched)

\* C8: after a successful sync that applied at least one record, the
\* persisted cursor equals the greatest `updated` of the records applied.
C8_CursorIsLastUpdated ==
    (pc = "done" /\ fetched # <<>>) => last_sync_time = Some(MaxUpdated(fetched))

\* C9: an incoming record that carries IGNORE_TAG is never stored: after the
\* records are applied it is in no tree.
C9_IgnoredNeverStored ==
    pc \in {"set", "done"}
    => \A a \in Range(fetched) :
           HasIgnoreTag(a)
           => /\ a.id \notin DOMAIN db.annotations
              /\ a.id \notin DOMAIN db.annotation_to_tags
              /\ Unlisted(db, a.id)

\* C11: when the search call fails for any of the queried users, the run ends
\* with that error and the persisted cursor is the one the run started from.
C11_RemoteErrorKeepsCursor ==
    pc = "remote_error"
    => last_sync_time = (IF sync_time = MIN_DATE THEN None ELSE Some(sync_time))

\* C11 witness: the query of the second user failed after the first one
\* returned records, in a run that started from a persisted cursor
C11_Witness ==
    /\ pc = "remote_error"
    /\ user_ix = 2
    /\ fetched # <<>>
    /\ last_sync_time = Some(sync_time)

\* ------------------------------------------------------------ claims, Spec (2)

\* C12: for any list of records, the `added` that sync_annotations returns is
\* the number of ids that are in the annotations tree after the call and were
\* not before it, and `updated` counts the remaining records of the list.
C12_CountsAddedAndUpdated ==
    [][\A annotations \in Lists(Inputs) :
          (SyncAnnotations(annotations) /\ last'.ok)
          => LET r == sync_annotations(db, annotations)
                 new_ids == (DOMAIN db'.annotations) \ (DOMAIN db.annotations)
             IN /\ r.val[1] = Cardinality(new_ids)
                /\ r.val[2] = Len(annotations) - Cardinality(new_ids)]_vars

\* the number of times id occurs in the list ids
Occurrences(ids, id) == Cardinality({i \in 1..Len(ids) : ids[i] = id})

\* C13: in every reachable state each annotation id occurs at most once in
\* every tag_to_annotations entry, also when a tag list repeats a tag or an
\* annotation is upserted repeatedly.
C13_IdListedOncePerTag ==
    \A t \in DOMAIN db.tag_to_annotations : \A id \in Ids :
        Occurrences(split_ids(db.tag_to_annotations[t]), id) <= 1

\* delete_annotation called on each id of ids in order, up to the first error
RECURSIVE delete_each(_, _)
delete_each(d, ids) ==
    IF ids = <<>> THEN Ok(d, <<>>)
    ELSE LET r == delete_annotation(d, ids[1]) IN
         IF ~r.ok THEN r ELSE delete_each(r.db, Tail(ids))

\* C14: for every store state and id list (untagged annotations, repeated
\* and absent ids included), delete_annotations(ids) leaves the same three
\* trees and the same success or error as delete_annotation on each id in
\* order.
C14_DeleteBatchIsRepeatedDelete ==
    \A ids \in Lists(Ids) :
        LET batch == delete_annotations(db, ids)
            each == delete_each(db, ids)
        IN /\ batch.db = each.db
           /\ batch.ok = each.ok
           /\ batch.err = each.err

\* C15: after sync_annotations has upserted an annotation with tags = [], its
\* id is returned by get_tagged_annotations(EMPTY_TAG) and is listed under no
\* other tag key.
C15_SentinelCorrectness ==
    (last.op = "sync_annotations" /\ last.ok)
    => \A i \in 1..Len(last.arg) :
           LET a == last.arg[i] IN
           (/\ a.tags = <<>>
            /\ \A j \in (i + 1)..Len(last.arg) : last.arg[j].id # a.id)
           => /\ a.id \in annotations_of(db, EMPTY_TAG)
              /\ \A t \in (DOMAIN db.tag_to_annotations) \ {EMPTY_TAG} :
                     a.id \notin annotations_of(db, t)

\* id has no record and no annotation_to_tags entry
NotStored(d, id) ==
    id \notin DOMAIN d.annotations /\ id \notin DOMAIN d.annotation_to_tags

\* C17: delete_annotation(id) for an id that is not stored returns
\* AnnotationNotFound and leaves all three trees unchanged.
C17_DeleteAbsentIsNotFound ==
    [][\A id \in Ids :
          (NotStored(db, id) /\ DeleteAnnotation(id))
          => /\ ~last'.ok
             /\ last'.err = "AnnotationNotFound"
             /\ db' = db]_vars

\* C17 witness: delete_annotation was called for an absent id on a store that
\* holds another annotation
C17_Witness ==
    /\ last.op = "delete_annotation"
    /\ NotStored(db, last.arg)
    /\ last.err = "AnnotationNotFound"
    /\ db.annotations # EmptyTree
    /\ db.tag_to_annotations # EmptyTree

\* C18: get_annotation_tags returns the empty list for an annotation stored
\* with no tags, and no list it returns holds the sentinel EMPTY_TAG.
C18_NoTagsIsEmptyList ==
    /\ \A id \in DOMAIN db.annotations :
           db.annotations[id].tags = <<>>
           => Seen(get_annotation_tags(db, id)) = [ok |-> TRUE, val |-> <<>>, err |-> ""]
    /\ \A id \in Ids :
           LET r == get_annotation_tags(db, id) IN r.ok => EMPTY_TAG \notin Range(r.val)

\* C18 witness: an annotation without tags is stored and listed under the
\* sentinel, next to an annotation with tags
C18_Witness ==
    \E id \in DOMAIN db.annotations : \E other \in DOMAIN db.annotations :
        /\ db.annotations[id].tags = <<>>
        /\ id \in annotations_of(db, EMPTY_TAG)
        /\ get_annotation_tags(db, id).val = <<>>
        /\ get_annotation_tags(db, other).val # <<>>

\* the tags a caller may ask get_tagged_annotations for
ProbeTags == {TagX, TagY, EMPTY_TAG}

AllBlank(tags) == \A i \in 1..Len(tags) : trim_is_empty(tags[i])

\* C16: a tag that is empty or blank counts as no tag: no tag_to_annotations
\* key is empty or blank, and an annotation upserted with only such tags is
\* listed under EMPTY_TAG and can then be deleted by delete_annotation.
C16_BlankTagIsNoTag ==
    /\ \A t \in DOMAIN db.tag_to_annotations : ~trim_is_empty(t)
    /\ (last.op = "sync_annotations" /\ last.ok)
       => \A i \in 1..Len(last.arg) :
              LET a == last.arg[i] IN
              (/\ AllBlank(a.tags)
               /\ \A j \in (i + 1)..Len(last.arg) : last.arg[j].id # a.id)
              => /\ a.id \in annotations_of(db, EMPTY_TAG)
                 /\ delete_annotation(db, a.id).ok

\* ------------------------------------------------------------ claims, FilterSpec

\* the records of the annotations tree
Stored(d) == {d.annotations[id] : id \in DOMAIN d.annotations}

\* C20: with a non-empty tag query and the `and` flag (and no other flag),
\* filter_annotations returns exactly the stored records that hold every
\* queried tag.
C20_AndFlagIsAllOf ==
    (/\ last.op = "filter_annotations"
     /\ last.arg.tags # <<>>
     /\ last.arg = [NoFilters EXCEPT !.tags = last.arg.tags, !.and = TRUE])
    => Range(shown) = {a \in Stored(db) : Range(last.arg.tags) \subseteq Range(a.tags)}

\* the last call was filter_annotations
Filtered == last.op = "filter_annotations"

\* C21: with --not, filter_annotations returns exactly the stored records
\* that fail the conjunction of the other predicates; for every query the
\* results with and without --not are disjoint and together hold every
\* stored record.
C21_NotIsComplement ==
    Filtered
    => LET with == Range(filter_annotations(db, [last.arg EXCEPT !.not = TRUE]))
           without == Range(filter_annotations(db, [last.arg EXCEPT !.not = FALSE]))
       IN /\ with \cap without = {}
          /\ with \cup without = Stored(db)
          /\ Range(shown) = IF last.arg.not THEN with ELSE without
          /\ with = {a \in Stored(db) :
                         ~filter_annotation(a, [last.arg EXCEPT !.not = FALSE])}

\* C21 witness: a query with --not and a tag predicate returned some stored
\* records and left others out
C21_Witness ==
    /\ Filtered
    /\ last.arg.not
    /\ last.arg.tags # <<>>
    /\ shown # <<>>
    /\ Range(shown) # Stored(db)

\* the timestamp the time predicate reads
Timestamp(a, filters) == IF filters.include_updated THEN a.updated ELSE a.created

\* C22: a record passes a `from` bound iff its timestamp (created, or updated
\* with include_updated) is >= from, and passes a `before` bound iff its
\* timestamp is < before.
C22_TimeBounds ==
    (/\ Filtered
     /\ last.arg = [NoFilters EXCEPT !.from = last.arg.from,
                                     !.before = last.arg.before,
                                     !.include_updated = last.arg.include_updated])
    => Range(shown) =
           {a \in Stored(db) :
               /\ last.arg.from # None => Timestamp(a, last.arg) >= last.arg.from[1]
               /\ last.arg.before # None => Timestamp(a, last.arg) < last.arg.before[1]}

\* C23: with a non-empty tag query and no --and, a record passes the tag
\* predicate iff it has at least one tag in the query; a record without tags
\* never passes.
C23_DefaultIsAnyOf ==
    (Filtered /\ last.arg.tags # <<>> /\ ~last.arg.and)
    => /\ \A a \in Stored(db) :
              in_tags(a, [last.arg EXCEPT !.exclude_tags = <<>>])
                  <=> (Range(a.tags) \cap Range(last.arg.tags) # {})
       /\ last.arg = [NoFilters EXCEPT !.tags = last.arg.tags]
              => Range(shown) = {a \in Stored(db) :
                                    Range(a.tags) \cap Range(last.arg.tags) # {}}
       /\ ~last.arg.not => \A a \in Range(shown) : a.tags # <<>>

\* C23 witness: a tag-only query returned a record that holds one of the two
\* queried tags and left out a record without tags
C23_Witness ==
    /\ Filtered
    /\ last.arg = [NoFilters EXCEPT !.tags = <<TagA, TagB>>]
    /\ \E a \in Range(shown) : a.tags = <<TagA>>
    /\ \E a \in Stored(db) \ Range(shown) : a.tags = <<>>

\* C24: with a non-empty exclude-tag set, a record passes the filter iff it
\* passes the same filter without the exclude set and has no tag in the
\* exclude set.
C24_ExcludeTags ==
    (Filtered /\ last.arg.exclude_tags # <<>>)
    => LET rest == [last.arg EXCEPT !.exclude_tags = <<>>, !.not = FALSE]
           Clear(a) == Range(a.tags) \cap Range(last.arg.exclude_tags) = {}
       IN /\ \A a \in Stored(db) :
                 filter_annotation(a, last.arg) <=> (filter_annotation(a, rest) /\ Clear(a))
          /\ ~last.arg.not
                 => Range(shown) = {a \in Range(filter_annotations(db, rest)) : Clear(a)}

\* C24 witness: a query with an exclude set and a tag predicate dropped a
\* record that the other predicates accept, and returned another
C24_Witness ==
    /\ Filtered
    /\ last.arg.exclude_tags = <<TagC>>
    /\ last.arg.tags # <<>>
    /\ ~last.arg.not
    /\ shown # <<>>
    /\ \E a \in Stored(db) \ Range(shown) :
           /\ TagC \in Range(a.tags)
           /\ filter_annotation(a, [last.arg EXCEPT !.exclude_tags = <<>>])

\* the list is in ascending, in descending order of `created`
Ascending(annotations) ==
    \A i \in 1..Len(annotations) : \A j \in i..Len(annotations) :
        annotations[i].created <= annotations[j].created
Descending(annotations) ==
    \A i \in 1..Len(annotations) : \A j \in i..Len(annotations) :
        annotations[i].created >= annotations[j].created

\* C25 as stated: filter_annotations returns the records ascending by
\* `created`, and descending when a `before` bound is given.
C25_OrderFollowsDirection ==
    Filtered => IF last.arg.before # None THEN Descending(shown) ELSE Ascending(shown)

\* C25: filter_annotations returns the matching records ascending by
\* `created` for every query, with or without a `before` bound.
C25_AlwaysAscending ==
    Filtered
    => /\ Ascending(shown)
       /\ Len(shown) = Cardinality(Range(shown))
       /\ Range(shown) = {a \in Stored(db) :
                              filter_annotation(a, last.arg) <=> ~last.arg.not}

\* C25 witness: a query with a `before` bound returned three records, the
\* one with the last key first, in ascending order of `created`
C25_Witness ==
    /\ Filtered
    /\ last.arg.before # None
    /\ Len(shown) = 3
    /\ shown[1].id = FilterIds[3]
    /\ shown[1].created < shown[2].created

\* ------------------------------------------------------------ claims, CommandSpec

\* the tag list without the tags of `tags`
Without(tag_list, tags) ==
    LET Other(t) == t \notin Range(tags) IN SelectSeq(tag_list, Other)

\* C26: after the tag command has added the tags T to the selected
\* annotations, every selected annotation carries every tag of T on Hypothesis
\* and, after the command's sync, in the database.
C26_TagAddReachesAllSelected ==
    (last.op = "tag" /\ ~last.arg.delete /\ last.ok)
    => \A a \in Range(shown) : \A t \in Range(last.arg.tags) :
           /\ t \in Range(remote[a.id].tags)
           /\ t \in Range(db.annotations[a.id].tags)
           /\ t \in tags_of(db, a.id)

C28_DeleteRemovesEverywhere ==
    [][(last'.op = "delete" /\ last'.arg # <<>> /\ last'.ok /\ nops' = nops + 1)
          => /\ \A id \in Range(last'.arg) :
                    /\ id \notin DOMAIN remote'
                    /\ NotStored(db', id)
                    /\ Unlisted(db', id)
             /\ \A id \in Range(FilterIds) \ Range(last'.arg) :
                    /\ TreeGet(remote', id) = TreeGet(remote, id)
                    /\ TreeGet(db'.annotations, id) = TreeGet(db.annotations, id)
                    /\ TreeGet(db'.annotation_to_tags, id)
                           = TreeGet(db.annotation_to_tags, id)
                    /\ \A t \in DOMAIN db.tag_to_annotations :
                           (id \in annotations_of(db', t)) <=> (id \in annotations_of(db, t))]_vars

\* ------------------------------------------------------------ claims, Spec: the index

\* C29: after every completed operation, every annotation id listed in an
\* entry of tag_to_annotations, the EMPTY_TAG entry included, is a key of the
\* annotations tree.
C29_NoDanglingIds ==
    last.ok
    => \A t \in DOMAIN db.tag_to_annotations :
           annotations_of(db, t) \subseteq DOMAIN db.annotations

\* C30: after every completed operation, for each tag t the ids that
\* get_tagged_annotations(t) returns are the ids of the stored annotations
\* whose own tag list contains t.
C30_IndexAgreesWithRecords ==
    last.ok
    => \A t \in {TagX, TagY} :
           annotations_of(db, t)
               = {id \in DOMAIN db.annotations : t \in Range(db.annotations[id].tags)}

\* sync_annotations called on each annotation of the list in order, up to the
\* first error
RECURSIVE upsert_each(_, _)
upsert_each(d, annotations) ==
    IF annotations = <<>> THEN Ok(d, <<>>)
    ELSE LET r == sync_annotations(d, <<annotations[1]>>) IN
         IF ~r.ok THEN r ELSE upsert_each(r.db, Tail(annotations))

\* the lists that hold the same id twice
Repeating == {l \in Lists(Inputs) : Len(l) = 2 /\ l[1].id = l[2].id}

\* C31: when the list passed to sync_annotations holds the same id twice and
\* the call succeeds, the three trees are those that upserting the
\* occurrences one after another leaves: record, annotation->tags entry and
\* tag memberships of the last occurrence, none left from the earlier one.
C31_RepeatedIdIsSequentialUpsert ==
    \A annotations \in Repeating :
        LET batch == sync_annotations(db, annotations)
            each == upsert_each(db, annotations)
        IN batch.ok => (each.ok /\ batch.db = each.db)

\* C32: after every sync_annotations, delete_annotation or delete_annotations
\* call, the annotations tree and the annotation_to_tags tree have the same
\* key set.
C32_SameKeySets == DOMAIN db.annotations = DOMAIN db.annotation_to_tags

\* ------------------------------------------------------------ claims, SyncSpec: the cursor

\* C33: when the queries of a sync return no annotation, the sync ends
\* reporting zero added and zero updated, and the stored last sync time keeps
\* the value it had.
C33_EmptyFetchKeepsCursor ==
    [][(pc = "set" /\ pc' = "done" /\ fetched = <<>>)
          => (counts = <<0, 0>> /\ last_sync_time' = last_sync_time)]_vars

\* ------------------------------------------------------------ claims, ReservedSpec

\* the annotation at position i is the last one of the list with its id
LastOccurrence(annotations, i) ==
    \A j \in (i + 1)..Len(annotations) : annotations[j].id # annotations[i].id

\* C34: for every annotation whose upsert succeeds, get_annotation_tags
\* returns exactly the set of its non-blank tags, also for a tag that holds
\* the ';' delimiter (such a tag makes the upsert fail or is stored as it is).
C34_TagsRoundTrip ==
    (last.op = "sync_annotations" /\ last.ok)
    => \A i \in 1..Len(last.arg) :
           LastOccurrence(last.arg, i)
           => LET r == get_annotation_tags(db, last.arg[i].id) IN
              /\ r.ok
              /\ Range(r.val) = {t \in Range(last.arg[i].tags) : ~trim_is_empty(t)}

\* C37: the entry of EMPTY_TAG lists only annotations without tags, whatever
\* tags the annotations carry: after a first successful upsert of annotations
\* with different ids, every id that get_tagged_annotations(EMPTY_TAG) returns
\* is stored with an empty tag list.
C37_SentinelHoldsOnlyUntagged ==
    (/\ last.op = "sync_annotations"
     /\ last.ok
     /\ nops = 1
     /\ \A i \in 1..Len(last.arg) : LastOccurrence(last.arg, i))
    => \A id \in annotations_of(db, EMPTY_TAG) :
           /\ id \in DOMAIN db.annotations
           /\ db.annotations[id].tags = <<>>

\* ------------------------------------------------------------ claims, Spec: tag keys

\* the stored annotations whose own tag list holds the tag
Holders(d, tag) == {id \in DOMAIN d.annotations : tag \in Range(d.annotations[id].tags)}

\* get_tagged_annotations reports the tag as not found
TagNotFound(d, tag) ==
    LET r == get_tagged_annotations(d, tag) IN ~r.ok /\ r.err = "TagNotFound"

\* C35: no tag_to_annotations key maps to an empty id list; and when a call
\* deletes or re-tags the last annotation that holds a tag whose entry listed
\* its holders, the key is removed and get_tagged_annotations returns
\* TagNotFound for the tag.
C35_NoEmptyEntry ==
    [][/\ \A t \in DOMAIN db'.tag_to_annotations :
              /\ db'.tag_to_annotations[t] # <<>>
              /\ <<>> \notin annotations_of(db', t)
       /\ \A t \in {TagX, TagY} :
              (/\ Holders(db, t) # {}
               /\ annotations_of(db, t) = Holders(db, t)
               /\ Holders(db', t) = {})
              => (t \notin DOMAIN db'.tag_to_annotations /\ TagNotFound(db', t))]_vars

\* ------------------------------------------------------------ claims, CommandSpec: failure

\* C36: when the call that deletes the annotations on Hypothesis fails, the
\* delete command has removed nothing from the three trees: no annotation
\* that Hypothesis still holds with `updated` before the last sync time is
\* missing from the database.
C36_RemoteFailureKeepsLocal ==
    [][(last'.op = "delete" /\ last'.err = "HypothesisError" /\ nops' = nops + 1)
          => /\ db' = db
             /\ \A id \in DOMAIN remote' :
                    (last_sync_time' # None /\ remote'[id].updated < last_sync_time'[1])
                    => id \in DOMAIN db'.annotations]_vars

\* ------------------------------------------------------------ claims, ResetSpec

\* the annotations of the user on Hypothesis
AnnotationsOf(user_id) == {remote[id] : id \in {i \in DOMAIN remote : remote[i].user = user_id}}

\* C38: get_sync_time returns MIN_DATE when no last sync time is stored, and
\* after reset_sync_time and after a confirmed clear; the sync that starts
\* from it fetches every annotation of each user.
C38_UnsetCursorIsMinDate ==
    [][/\ (last_sync_time' = None) => (get_sync_time' = MIN_DATE)
       /\ (ResetSyncTime \/ ClearCommand(TRUE)) => (get_sync_time' = MIN_DATE)
       /\ (SyncBegin /\ get_sync_time = MIN_DATE) => (sync_time' = MIN_DATE)
       /\ (SyncFetch /\ sync_time = MIN_DATE)
          => (AnnotationsOf(Users[user_ix]) \subseteq Range(fetched'))]_vars

\* C38 witness: after a sync had stored its time, reset_sync_time or clear
\* was called and the next sync fetched an annotation older than that time
C38_Witness ==
    /\ last.op \in {"reset_sync_time", "clear"}
    /\ last.ok
    /\ last.arg # None
    /\ pc = "apply"
    /\ sync_time = MIN_DATE
    /\ \E a \in Range(fetched) : a.updated < last.arg[1]

\* C39: a sync run without configured groups returns Ok without a query to
\* Hypothesis and leaves the last sync time and the three trees as they were.
C39_NoGroupsChangesNothing ==
    [][(pc = "idle" /\ pc' = "no_groups")
          => /\ db' = db
             /\ last_sync_time' = last_sync_time
             /\ fetched' = <<>>
             /\ remote' = remote]_vars

\* C39 witness: the run without groups ended on a database that holds an
\* annotation, with a stored time and a newer annotation waiting on Hypothesis
C39_Witness ==
    /\ pc = "no_groups"
    /\ DOMAIN db.annotations # {}
    /\ last_sync_time # None
    /\ \E id \in DOMAIN remote :
           /\ remote[id].updated > last_sync_time[1]
           /\ id \notin DOMAIN db.annotations

====
